---------------------------- MODULE Spec2Model ----------------------------
(***************************************************************************)
(* A model of libmonero's key module (src/src/keys.rs): mnemonic seed      *)
(* generation, mnemonic -> hex seed decoding, private key derivation and   *)
(* address construction.                                                   *)
(*                                                                         *)
(* Strings are sequences of bytes (Rust's str is UTF-8 and is sliced by    *)
(* byte index); the model's words and hex strings are ASCII.  A call       *)
(* either returns a value or panics: Rust's panic!() unwinds the calling   *)
(* thread, the functions of keys.rs return plain values (Vec<String>,      *)
(* String), never a Result.                                                *)
(*                                                                         *)
(* usize is taken to be 64 bits wide.  TLC's integers are 32 bits wide,    *)
(* so a value that can pass 2^31 is carried as a pair of smaller numbers.  *)
(***************************************************************************)
EXTENDS Integers, Sequences, FiniteSets, TLC

Ok(v)      == [kind |-> "ok", value |-> v]
Panic(msg) == [kind |-> "panic", msg |-> msg]

Min(S) == CHOOSE i \in S : \A j \in S : i <= j

\* A sequence given by a rule, with its elements computed once.
Strict(f) == f \o <<>>

(***************************************************************************)
(* Bitwise exclusive or of two naturals.                                   *)
(***************************************************************************)
RECURSIVE BitXor(_, _)
BitXor(a, b) ==
    IF a = 0 THEN b
    ELSE IF b = 0 THEN a
    ELSE ((a + b) % 2) + 2 * BitXor(a \div 2, b \div 2)

(***************************************************************************)
(* Hex formatting and parsing.                                             *)
(***************************************************************************)
\* format!("{:x}") of one nibble: '0'..'9' are 48..57, 'a'..'f' are 97..102.
HexChar(n) == IF n < 10 THEN 48 + n ELSE 87 + n

\* format!("{:02x}", byte)
FormatByte(b) == <<HexChar(b \div 16), HexChar(b % 16)>>

\* The loops `for j in i..i + 32 { push_str(&format!("{:02x}", array[j])) }`:
\* characters 2k - 1 and 2k of the string are FormatByte of byte k.
HexEncode(bytes) ==
    Strict([i \in 1..(2 * Len(bytes)) |-> FormatByte(bytes[(i + 1) \div 2])[2 - (i % 2)]])

\* hex::decode's value of one character: digits and both letter cases; -1
\* for a character that is no hex digit.
HexVal(c) ==
    IF c >= 48 /\ c <= 57 THEN c - 48
    ELSE IF c >= 97 /\ c <= 102 THEN c - 87
    ELSE IF c >= 65 /\ c <= 70 THEN c - 55
    ELSE -1

\* hex::decode(s): Err for an odd length or a character that is no hex digit.
HexDecode(s) ==
    IF Len(s) % 2 # 0 THEN [kind |-> "err", msg |-> "OddLength"]
    ELSE IF \E i \in 1..Len(s) : HexVal(s[i]) < 0
         THEN [kind |-> "err", msg |-> "InvalidHexCharacter"]
    ELSE Ok([i \in 1..(Len(s) \div 2) |->
                16 * HexVal(s[2 * i - 1]) + HexVal(s[2 * i])])

(***************************************************************************)
(* CRC-32 (IEEE 802.3, reflected polynomial EDB88320, initial value and    *)
(* final xor FFFFFFFF), as crc32fast::Hasher computes it.  The 32-bit      *)
(* register is the pair <<high 16 bits, low 16 bits>>.                     *)
(***************************************************************************)
CrcShift(c) ==
    LET hi == c[1] \div 2
        lo == (c[2] \div 2) + 32768 * (c[1] % 2)
    IN  IF c[2] % 2 = 1 THEN <<BitXor(hi, 60856), BitXor(lo, 33568)>>
        ELSE <<hi, lo>>

\* The table of the byte-wise algorithm: entry n is n shifted out bit by bit.
CrcTable ==
    Strict([n \in 1..256 |->
        CrcShift(CrcShift(CrcShift(CrcShift(CrcShift(CrcShift(CrcShift(CrcShift(
            <<0, n - 1>>))))))))])

\* crc = table[(crc ^ b) & 0xff] ^ (crc >> 8)
CrcByte(c, b) ==
    LET t == CrcTable[BitXor(c[2] % 256, b) + 1]
    IN  <<BitXor(c[1] \div 256, t[1]),
          BitXor((c[2] \div 256) + 256 * (c[1] % 256), t[2])>>

\* The register after bytes[from..to], taken in order (the range is halved
\* only to keep the evaluation shallow).
RECURSIVE CrcUpdate(_, _, _, _)
CrcUpdate(c, bytes, from, to) ==
    IF from > to THEN c
    ELSE IF from = to THEN CrcByte(c, bytes[from])
    ELSE LET mid == (from + to) \div 2
             half == CrcUpdate(c, bytes, from, mid)
         IN  IF half[1] >= 0 THEN CrcUpdate(half, bytes, mid + 1, to) ELSE half

\* hasher.update(bytes); hasher.finalize()
Crc32(bytes) ==
    LET c == CrcUpdate(<<65535, 65535>>, bytes, 1, Len(bytes))
    IN  <<65535 - c[1], 65535 - c[2]>>

\* (c as usize) % n for a 32-bit c held as <<hi, lo>>
U32Mod(c, n) == (((c[1] % n) * (65536 % n)) + c[2]) % n


(***************************************************************************)
(* Wordsets.  The dictionaries are data of the language files, which are   *)
(* not part of the sources at hand: each is a list of wordset_len distinct *)
(* words whose first prefix_len bytes identify the word.  The model holds  *)
(* one wordset for each shape of prefix_len the decoder distinguishes:     *)
(* 3, 4 and 0.  Its word at position p spells p in three letters (base 26) *)
(* and ends in letters of its own, so no two wordsets share a word.        *)
(***************************************************************************)
\* pub words: [&'static str; 1626]
wordset_len == 1626

Letter(n) == 97 + n

DictWord(p, tail) ==
    <<Letter(p \div 676), Letter((p \div 26) % 26), Letter(p % 26)>> \o tail

DictWords(tail) == Strict([i \in 1..wordset_len |-> DictWord(i - 1, tail)])

WORDSETSORIGINAL ==
    << [name |-> "en", prefix_len |-> 3, words |-> DictWords(<<101, 110>>)],
       [name |-> "eo", prefix_len |-> 4, words |-> DictWords(<<111, 111>>)],
       [name |-> "p0", prefix_len |-> 0, words |-> DictWords(<<122>>)] >>

\* The words of each wordset as a set, for wordset.words.contains(..).
WordsetMembers ==
    [k \in 1..Len(WORDSETSORIGINAL) |->
        {WORDSETSORIGINAL[k].words[i] : i \in 1..wordset_len}]

Languages == {WORDSETSORIGINAL[k].name : k \in 1..Len(WORDSETSORIGINAL)}

\* WORDSETSORIGINAL.iter().position(|x| x.name == language)
WordsetIndex(language) ==
    Min({k \in 1..Len(WORDSETSORIGINAL) : WORDSETSORIGINAL[k].name = language})

WordsetNamed(language) == WORDSETSORIGINAL[WordsetIndex(language)]

\* &word[..n]
Prefix(word, n) == SubSeq(word, 1, n)

\* strs[from] followed by ... followed by strs[to]
RECURSIVE ConcatRange(_, _, _)
ConcatRange(strs, from, to) ==
    IF from > to THEN <<>>
    ELSE IF from = to THEN strs[from]
    ELSE LET mid == (from + to) \div 2
         IN  ConcatRange(strs, from, mid) \o ConcatRange(strs, mid + 1, to)

Concat(strs) == ConcatRange(strs, 1, Len(strs))

(***************************************************************************)
(* Seed generation.                                                        *)
(***************************************************************************)
\* The indexes secure_random_element draws in n successive calls.  The
\* generator's stream is an input: stream (start, step) draws start,
\* start + step, start + 2 step, ... (mod the dictionary's length).
RandomIndexes(start, step, n) ==
    [i \in 1..n |-> (start + (i - 1) * step) % wordset_len]

get_checksum_index_whole_words(array, prefix_length) ==
    U32Mod(Crc32(Concat(array)), Len(array))

get_checksum_index(array, prefix_length) ==
    LET trimmed_words == Concat([i \in 1..Len(array) |->
                                    Prefix(array[i], prefix_length)])
    IN  U32Mod(Crc32(trimmed_words), Len(array))

\* The body shared by generate_original_seed (n = 24) and
\* generate_mymonero_seed (n = 12).
generate_n_word_seed(language, n, random) ==
    IF language \notin Languages THEN Panic("Language not found")
    ELSE LET wordset == WordsetNamed(language)
             seed == Strict([i \in 1..n |-> wordset.words[random[i] + 1]])
             checksum_index == get_checksum_index(seed, wordset.prefix_len)
         IN  Ok(Append(seed, seed[checksum_index + 1]))

generate_original_seed(language, random) ==
    generate_n_word_seed(language, 24, random)

generate_mymonero_seed(language, random) ==
    generate_n_word_seed(language, 12, random)

generate_seed_default_original(language, seed_type, random) ==
    CASE seed_type = "mymonero" -> generate_mymonero_seed(language, random)
      [] seed_type = "polyseed" -> Panic("Polyseed not yet implemented yet")
      [] OTHER -> generate_original_seed(language, random)

generate_seed(language, seed_type, random) ==
    CASE seed_type = "original" -> generate_original_seed(language, random)
      [] seed_type = "mymonero" -> generate_mymonero_seed(language, random)
      [] seed_type = "polyseed" -> Panic("Polyseed not yet implemented yet")
      [] OTHER -> Panic("Invalid seed type")

(***************************************************************************)
(* Mnemonic -> hex seed.                                                   *)
(***************************************************************************)
\* A usize that can pass 2^31 is the pair <<hi, lo>>: hi * 65536 + lo.
U64Mod(x, n) == (((x[1] % n) * (65536 % n)) + x[2]) % n

RECURSIVE HexDigits(_)
HexDigits(n) ==
    IF n < 16 THEN <<HexChar(n)>>
    ELSE HexDigits(n \div 16) \o <<HexChar(n % 16)>>

\* Zero-padding to a minimum width: a longer string is left as it is.
PadLeft(s, width) ==
    IF Len(s) >= width THEN s ELSE [i \in 1..(width - Len(s)) |-> 48] \o s

\* format!("{:08x}", x)
FormatHex08(x) ==
    PadLeft(IF x[1] = 0 THEN HexDigits(x[2])
            ELSE HexDigits(x[1]) \o PadLeft(HexDigits(x[2]), 4), 8)

swap_endian_4_byte(s) ==
    SubSeq(s, 7, 8) \o SubSeq(s, 5, 6) \o SubSeq(s, 3, 4) \o SubSeq(s, 1, 2)

\* x.starts_with(p)
StartsWith(x, p) == Len(p) <= Len(x) /\ \A j \in 1..Len(p) : x[j] = p[j]

\* The same sum in a usize of 32 bits that wraps: the digits from 2^32 up
\* are lost.
triple_value_wrapping_u32(w1, w2, w3) ==
    LET d1 == ((wordset_len - w1) + w2) % wordset_len
        d2 == ((wordset_len - w2) + w3) % wordset_len
        sq == wordset_len * wordset_len
        low == w1 + wordset_len * d1 + (sq % 65536) * d2
    IN  <<((sq \div 65536) * d2 + (low \div 65536)) % 65536, low % 65536>>

\* w1 + wordset_len * (((wordset_len - w1) + w2) % wordset_len)
\*    + wordset_len * wordset_len * (((wordset_len - w2) + w3) % wordset_len)
\* with wordset_len * wordset_len split at 2^16, so that no intermediate
\* value passes 2^31.
triple_value(w1, w2, w3) ==
    LET d1 == ((wordset_len - w1) + w2) % wordset_len
        d2 == ((wordset_len - w2) + w3) % wordset_len
        sq == wordset_len * wordset_len
        low == w1 + wordset_len * d1 + (sq % 65536) * d2
    IN  <<(sq \div 65536) * d2 + (low \div 65536), low % 65536>>

\* the_wordset.words.iter().position(|&x| x == word), or
\* trunc_words.iter().position(|&x| x.starts_with(&word[..prefix_len]));
\* -1 for None.
word_position(the_wordset, trunc_words, word) ==
    LET prefix == Prefix(word, the_wordset.prefix_len)
        hits == IF the_wordset.prefix_len = 0
                THEN {k \in 1..wordset_len : the_wordset.words[k] = word}
                ELSE {k \in 1..wordset_len : StartsWith(trunc_words[k], prefix)}
    IN  IF hits = {} THEN -1 ELSE Min(hits) - 1

InvalidWord == Panic("Invalid word in seed, please check your seed")
OutOfBounds == Panic("index out of bounds")
DecodeFailed ==
    Panic("Something went wrong when decoding your private key, please try again")

\* The loop `for i in (0..mnemonic_seed.len()).step_by(3)`, from index i on
\* (i counts from 0, as in the source).
RECURSIVE decode_triples(_, _, _, _, _)
decode_triples(the_wordset, trunc_words, mnemonic_seed, i, hex_seed) ==
    IF i >= Len(mnemonic_seed) THEN Ok(hex_seed)
    ELSE LET w1 == word_position(the_wordset, trunc_words, mnemonic_seed[i + 1])
             w2 == word_position(the_wordset, trunc_words, mnemonic_seed[i + 2])
             w3 == word_position(the_wordset, trunc_words, mnemonic_seed[i + 3])
             x == triple_value(w1, w2, w3)
         IN  IF w1 < 0 THEN InvalidWord
             ELSE IF i + 1 >= Len(mnemonic_seed) THEN OutOfBounds
             ELSE IF w2 < 0 THEN InvalidWord
             ELSE IF i + 2 >= Len(mnemonic_seed) THEN OutOfBounds
             ELSE IF w3 < 0 THEN InvalidWord
             ELSE IF U64Mod(x, wordset_len) # w1 THEN DecodeFailed
             ELSE decode_triples(the_wordset, trunc_words, mnemonic_seed, i + 3,
                                 hex_seed \o swap_endian_4_byte(FormatHex08(x)))

\* The first wordset that contains every word of the mnemonic; 0 for none
\* (the_wordset.name == "x").
find_wordset(mnemonic_seed) ==
    LET found == {k \in 1..Len(WORDSETSORIGINAL) :
                    \A j \in 1..Len(mnemonic_seed) :
                        mnemonic_seed[j] \in WordsetMembers[k]}
    IN  IF found = {} THEN 0 ELSE Min(found)

\* mnemonic_seed.pop() when the wordset's prefix_len is positive
remove_checksum_word(the_wordset, mnemonic_seed) ==
    IF the_wordset.prefix_len > 0 /\ Len(mnemonic_seed) > 0
    THEN SubSeq(mnemonic_seed, 1, Len(mnemonic_seed) - 1)
    ELSE mnemonic_seed

derive_hex_seed(mnemonic_seed) ==
    IF find_wordset(mnemonic_seed) = 0
    THEN Panic("Wordset could not be found for given seed, please check your seed")
    ELSE LET the_wordset == WORDSETSORIGINAL[find_wordset(mnemonic_seed)]
             trunc_words == Strict([k \in 1..wordset_len |->
                                Prefix(the_wordset.words[k], the_wordset.prefix_len)])
         IN  decode_triples(the_wordset, trunc_words,
                            remove_checksum_word(the_wordset, mnemonic_seed),
                            0, <<>>)

(***************************************************************************)
(* Keccak-256 as sha3::Keccak256 computes it: the Keccak-f[1600] sponge    *)
(* with rate 136 bytes, the original Keccak padding (01 .. 80) and a       *)
(* 32-byte digest.  The state is 1600 bits: bit i (0..63) of lane k        *)
(* (0..24, lane x + 5 y) is A[64 k + i + 1].                               *)
(***************************************************************************)
RotationOffsets ==
    <<0, 1, 62, 28, 27,  36, 44, 6, 55, 20,  3, 10, 43, 25, 39,
      41, 45, 15, 21, 8,  18, 2, 61, 56, 14>>

\* The bits set in each of the 24 round constants.
RoundConstants ==
    <<{0}, {1, 7, 15}, {1, 3, 7, 15, 63}, {15, 31, 63}, {0, 1, 3, 7, 15},
      {0, 31}, {0, 7, 15, 31, 63}, {0, 3, 15, 63}, {1, 3, 7}, {3, 7},
      {0, 3, 15, 31}, {1, 3, 31}, {0, 1, 3, 7, 15, 31}, {0, 1, 3, 7, 63},
      {0, 3, 7, 15, 63}, {0, 1, 15, 63}, {1, 15, 63}, {7, 63}, {1, 3, 15},
      {1, 3, 31, 63}, {0, 7, 15, 31, 63}, {7, 15, 63}, {0, 31},
      {3, 15, 31, 63}>>

\* Theta: bit b of D is the xor of column parities ThetaLeft[b] (column
\* x - 1, same bit) and ThetaRight[b] (column x + 1, the bit below).
ThetaLeft ==
    Strict([b \in 1..320 |->
        64 * ((((b - 1) \div 64) + 4) % 5) + ((b - 1) % 64) + 1])

ThetaRight ==
    Strict([b \in 1..320 |->
        64 * ((((b - 1) \div 64) + 1) % 5) + ((((b - 1) % 64) + 63) % 64) + 1])

\* Rho and pi: bit b of B is bit RhoPiSource[b] of the state after theta; lane
\* k = y + 5 ((2 x + 3 y) mod 5) of B is lane s = x + 5 y rotated left by
\* RotationOffsets[s + 1].
RhoPiSource ==
    Strict([b \in 1..1600 |->
        LET k == (b - 1) \div 64
            i == (b - 1) % 64
            s == (((k % 5) + 3 * (k \div 5)) % 5) + 5 * (k % 5)
        IN  64 * s + ((i + 64 - RotationOffsets[s + 1]) % 64) + 1])

\* The bit of D that theta xors into bit b of the state.
ThetaColumn ==
    Strict([b \in 1..1600 |-> 64 * (((b - 1) \div 64) % 5) + ((b - 1) % 64) + 1])

\* Chi: bit b is xored with (not bit ChiNot[b]) and bit ChiAnd[b], the same
\* bit of the next two lanes of the row.
ChiNot ==
    Strict([b \in 1..1600 |->
        LET k == (b - 1) \div 64
        IN  64 * (5 * (k \div 5) + ((k + 1) % 5)) + ((b - 1) % 64) + 1])

ChiAnd ==
    Strict([b \in 1..1600 |->
        LET k == (b - 1) \div 64
        IN  64 * (5 * (k \div 5) + ((k + 2) % 5)) + ((b - 1) % 64) + 1])

\* One round: theta (C, D), rho and pi (B), chi and iota.
KeccakRound(A, rnd) ==
    LET C == Strict([b \in 1..320 |->
                (A[b] + A[b + 320] + A[b + 640] + A[b + 960] + A[b + 1280]) % 2])
        D == Strict([b \in 1..320 |-> (C[ThetaLeft[b]] + C[ThetaRight[b]]) % 2])
        B == Strict([b \in 1..1600 |->
                (A[RhoPiSource[b]] + D[ThetaColumn[RhoPiSource[b]]]) % 2])
    IN  Strict([b \in 1..1600 |->
                LET e == (B[b] + (1 - B[ChiNot[b]]) * B[ChiAnd[b]]) % 2
                IN  IF b <= 64 /\ (b - 1) \in RoundConstants[rnd]
                    THEN 1 - e ELSE e])

\* Rounds rnd..24 (the test on next makes TLC evaluate a round before the
\* following one).
RECURSIVE KeccakF(_, _)
KeccakF(A, rnd) ==
    IF rnd > 24 THEN A
    ELSE LET next == KeccakRound(A, rnd)
         IN  IF next[1] >= 0 THEN KeccakF(next, rnd + 1) ELSE next

Bit(n, k) == (n \div (2 ^ k)) % 2

\* The state with one block of the rate xored into its first lanes.
Absorb(A, block) ==
    Strict([b \in 1..1600 |->
        IF b > 8 * Len(block) THEN A[b]
        ELSE (A[b] + Bit(block[((b - 1) \div 8) + 1], (b - 1) % 8)) % 2])

KeccakPad(m) ==
    LET n == 136 - (Len(m) % 136)
    IN  m \o [i \in 1..n |->
                (IF i = 1 THEN 1 ELSE 0) + (IF i = n THEN 128 ELSE 0)]

RECURSIVE Sponge(_, _)
Sponge(A, m) ==
    IF m = <<>> THEN A
    ELSE LET next == KeccakF(Absorb(A, SubSeq(m, 1, 136)), 1)
         IN  IF next[1] >= 0
             THEN Sponge(next, SubSeq(m, 136 + 1, Len(m)))
             ELSE next

\* Byte j (from 0) of the state.
StateByte(A, j) ==
    A[8 * j + 1] + 2 * A[8 * j + 2] + 4 * A[8 * j + 3] + 8 * A[8 * j + 4]
    + 16 * A[8 * j + 5] + 32 * A[8 * j + 6] + 64 * A[8 * j + 7]
    + 128 * A[8 * j + 8]

\* Keccak256::digest(m)
Keccak256(m) ==
    LET A == Sponge([b \in 1..1600 |-> 0], KeccakPad(m))
    IN  Strict([j \in 1..32 |-> StateByte(A, j - 1)])

(***************************************************************************)
(* sc_reduce32: the 32-byte little-endian integer reduced modulo the       *)
(* Ed25519 group order l = 2^252 + 27742317777372353535851937790883648493. *)
(***************************************************************************)
\* l, little-endian.
GroupOrder ==
    <<237, 211, 245, 92, 26, 99, 18, 88, 214, 156, 247, 162, 222, 249, 222, 20,
      0, 0, 0, 0, 0, 0, 0, 0, 0, 0, 0, 0, 0, 0, 0, 16>>

\* a < b for little-endian integers, their first n bytes only
LessLE(a, b, n) ==
    LET differ == {i \in 1..n : a[i] # b[i]}
    IN  differ # {} /\
        LET top == CHOOSE i \in differ : \A j \in differ : j <= i
        IN  a[top] < b[top]

\* a - b for little-endian integers a >= b of the same length: byte i
\* borrows when the bytes below it of a are less than those of b.
SubLE(a, b) ==
    Strict([i \in 1..Len(a) |->
        (256 + a[i] - b[i] - (IF LessLE(a, b, i - 1) THEN 1 ELSE 0)) % 256])

RECURSIVE sc_reduce32(_)
sc_reduce32(x) ==
    IF LessLE(x, GroupOrder, 32) THEN x ELSE sc_reduce32(SubLE(x, GroupOrder))

(***************************************************************************)
(* Private keys from a hex seed.                                           *)
(***************************************************************************)
\* .unwrap() of a hex::decode that failed
UnwrapErr(d) == Panic(d.msg)

\* copy_from_slice into a [u8; 32] of a slice that is not 32 bytes long
CopyFromSlice == Panic("source slice length does not match destination slice length")

\* The view key is taken from the seed's bytes as given, before sc_reduce32.
derive_original_priv_keys_view_from_seed(hex_seed) ==
    LET hex_bytes == HexDecode(hex_seed)
    IN  IF hex_bytes.kind # "ok" THEN UnwrapErr(hex_bytes)
        ELSE IF Len(hex_bytes.value) # 32 THEN CopyFromSlice
        ELSE Ok(<<HexEncode(sc_reduce32(hex_bytes.value)),
                  HexEncode(sc_reduce32(Keccak256(hex_bytes.value)))>>)

derive_original_priv_keys(hex_seed) ==
    LET hex_bytes == HexDecode(hex_seed)
    IN  IF hex_bytes.kind # "ok" THEN UnwrapErr(hex_bytes)
        ELSE IF Len(hex_bytes.value) # 32 THEN CopyFromSlice
        ELSE LET priv_spend_key == HexEncode(sc_reduce32(hex_bytes.value))
                 priv_spend_key_bytes == HexDecode(priv_spend_key).value
                 priv_view_key_bytes == Keccak256(priv_spend_key_bytes)
                 priv_view_key == HexEncode(sc_reduce32(priv_view_key_bytes))
             IN  Ok(<<priv_spend_key, priv_view_key>>)

\* The view key is taken from the private spend key, as for an original seed.
derive_mymonero_priv_keys_view_from_spend(hex_seed) ==
    LET hex_bytes == HexDecode(hex_seed)
    IN  IF hex_bytes.kind # "ok" THEN UnwrapErr(hex_bytes)
        ELSE LET priv_spend_key_array == sc_reduce32(Keccak256(hex_bytes.value))
             IN  Ok(<<HexEncode(priv_spend_key_array),
                      HexEncode(sc_reduce32(Keccak256(priv_spend_key_array)))>>)

derive_mymonero_priv_keys(hex_seed) ==
    LET hex_bytes == HexDecode(hex_seed)
    IN  IF hex_bytes.kind # "ok" THEN UnwrapErr(hex_bytes)
        ELSE LET priv_spend_key_bytes == Keccak256(hex_bytes.value)
                 priv_spend_key == HexEncode(sc_reduce32(priv_spend_key_bytes))
                 priv_view_key_array == Keccak256(hex_bytes.value)
                 priv_view_key_bytes == Keccak256(priv_view_key_array)
                 priv_view_key == HexEncode(sc_reduce32(priv_view_key_bytes))
             IN  Ok(<<priv_spend_key, priv_view_key>>)

\* match hex_seed.len() { 32 => .., 64 => .., _ => panic!(..) }
derive_priv_keys(hex_seed) ==
    IF Len(hex_seed) = 32 THEN derive_mymonero_priv_keys(hex_seed)
    ELSE IF Len(hex_seed) = 64 THEN derive_original_priv_keys(hex_seed)
    ELSE Panic("Invalid hex seed")

derive_priv_vk_from_priv_sk(private_spend_key) ==
    LET priv_spend_key_bytes == HexDecode(private_spend_key)
    IN  IF priv_spend_key_bytes.kind # "ok" THEN UnwrapErr(priv_spend_key_bytes)
        ELSE LET priv_view_key_bytes == Keccak256(priv_spend_key_bytes.value)
             IN  Ok(HexEncode(sc_reduce32(priv_view_key_bytes)))

(***************************************************************************)
(* Monero's Base58, as base58_monero::encode computes it: the data is cut  *)
(* into blocks of 8 bytes, each block is a big-endian number written with  *)
(* a fixed count of base-58 digits (11 for a full block).                  *)
(***************************************************************************)
\* 123456789ABCDEFGHJKLMNPQRSTUVWXYZabcdefghijkmnopqrstuvwxyz
Base58Alphabet ==
    <<49, 50, 51, 52, 53, 54, 55, 56, 57, 65, 66, 67, 68, 69, 70,
      71, 72, 74, 75, 76, 77, 78, 80, 81, 82, 83, 84, 85, 86, 87,
      88, 89, 90, 97, 98, 99, 100, 101, 102, 103, 104, 105, 106, 107, 109,
      110, 111, 112, 113, 114, 115, 116, 117, 118, 119, 120, 121, 122>>

\* The characters of a block of 0..8 bytes.
EncodedBlockSizes == <<0, 2, 3, 5, 6, 7, 9, 10, 11>>

\* <<quotient, remainder>> of the big-endian number bytes[i..] by 58, rem the
\* remainder carried in and acc the quotient's bytes so far.
RECURSIVE DivMod58(_, _, _, _)
DivMod58(bytes, i, rem, acc) ==
    IF i > Len(bytes) THEN <<acc, rem>>
    ELSE LET cur == 256 * rem + bytes[i]
         IN  DivMod58(bytes, i + 1, cur % 58, Append(acc, cur \div 58))

\* The last n base-58 digits of the block, as characters.
RECURSIVE EncodeDigits(_, _)
EncodeDigits(block, n) ==
    IF n = 0 THEN <<>>
    ELSE LET qr == DivMod58(block, 1, 0, <<>>)
         IN  IF qr[2] >= 0
             THEN Append(EncodeDigits(qr[1], n - 1), Base58Alphabet[qr[2] + 1])
             ELSE <<>>

EncodeBlock(block) == EncodeDigits(block, EncodedBlockSizes[Len(block) + 1])

Base58Encode(data) ==
    LET blocks == (Len(data) + 7) \div 8
    IN  Concat([b \in 1..blocks |->
            EncodeBlock(SubSeq(data, 8 * b - 7,
                               IF 8 * b <= Len(data) THEN 8 * b ELSE Len(data)))])

(***************************************************************************)
(* The address of a pair of public keys.                                   *)
(***************************************************************************)
\* Any network id other than 0 is taken as the test network.
derive_address_default_testnet(public_spend_key, public_view_key, network) ==
    LET network_byte == IF network = 0 THEN <<18>> ELSE <<53>>
        pub_sk_bytes == HexDecode(public_spend_key)
        pub_vk_bytes == HexDecode(public_view_key)
    IN  IF pub_sk_bytes.kind # "ok" THEN UnwrapErr(pub_sk_bytes)
        ELSE IF pub_vk_bytes.kind # "ok" THEN UnwrapErr(pub_vk_bytes)
        ELSE LET data == network_byte \o pub_sk_bytes.value \o pub_vk_bytes.value
                 hash == Keccak256(data)
             IN  Ok(Base58Encode(data \o SubSeq(hash, 1, 4)))

derive_address(public_spend_key, public_view_key, network) ==
    IF network \notin {0, 1} THEN Panic("Invalid network")
    ELSE LET network_byte == IF network = 0 THEN <<18>> ELSE <<53>>
             pub_sk_bytes == HexDecode(public_spend_key)
             pub_vk_bytes == HexDecode(public_view_key)
         IN  IF pub_sk_bytes.kind # "ok" THEN UnwrapErr(pub_sk_bytes)
             ELSE IF pub_vk_bytes.kind # "ok" THEN UnwrapErr(pub_vk_bytes)
             ELSE LET data == network_byte \o pub_sk_bytes.value
                                           \o pub_vk_bytes.value
                      hash == Keccak256(data)
                  IN  Ok(Base58Encode(data \o SubSeq(hash, 1, 4)))

(***************************************************************************)
(* The CryptoNight helpers of crypt/cryptonight/aesu.rs and otheru.rs.     *)
(* A u64 is the sequence of its 8 base-256 digits, the most significant    *)
(* first; a [u64; 2] is a pair of them; a block, a cell or a key is a      *)
(* sequence of 16 bytes.                                                   *)
(***************************************************************************)
\* XorTable[256 a + b + 1] = a xor b for bytes a and b.
XorTable ==
    Strict([i \in 1..65536 |-> BitXor((i - 1) \div 256, (i - 1) % 256)])

XorByte(a, b) == XorTable[256 * a + b + 1]

\* xor(a, b): the bytes of a, each xored with the byte of b at its place.
XorBytes(a, b) == Strict([i \in 1..Len(a) |-> XorByte(a[i], b[i])])

\* The AES substitution box.
SBox ==
    <<99, 124, 119, 123, 242, 107, 111, 197, 48, 1, 103, 43, 254, 215, 171, 118,
      202, 130, 201, 125, 250, 89, 71, 240, 173, 212, 162, 175, 156, 164, 114, 192,
      183, 253, 147, 38, 54, 63, 247, 204, 52, 165, 229, 241, 113, 216, 49, 21,
      4, 199, 35, 195, 24, 150, 5, 154, 7, 18, 128, 226, 235, 39, 178, 117,
      9, 131, 44, 26, 27, 110, 90, 160, 82, 59, 214, 179, 41, 227, 47, 132,
      83, 209, 0, 237, 32, 252, 177, 91, 106, 203, 190, 57, 74, 76, 88, 207,
      208, 239, 170, 251, 67, 77, 51, 133, 69, 249, 2, 127, 80, 60, 159, 168,
      81, 163, 64, 143, 146, 157, 56, 245, 188, 182, 218, 33, 16, 255, 243, 210,
      205, 12, 19, 236, 95, 151, 68, 23, 196, 167, 126, 61, 100, 93, 25, 115,
      96, 129, 79, 220, 34, 42, 144, 136, 70, 238, 184, 20, 222, 94, 11, 219,
      224, 50, 58, 10, 73, 6, 36, 92, 194, 211, 172, 98, 145, 149, 228, 121,
      231, 200, 55, 109, 141, 213, 78, 169, 108, 86, 244, 234, 101, 122, 174, 8,
      186, 120, 37, 46, 28, 166, 180, 198, 232, 221, 116, 31, 75, 189, 139, 138,
      112, 62, 181, 102, 72, 3, 246, 14, 97, 53, 87, 185, 134, 193, 29, 158,
      225, 248, 152, 17, 105, 217, 142, 148, 155, 30, 135, 233, 206, 85, 40, 223,
      140, 161, 137, 13, 191, 230, 66, 104, 65, 153, 45, 15, 176, 84, 187, 22>>

\* Multiplication by x in GF(2^8) modulo x^8 + x^4 + x^3 + x + 1.
XTime(v) == IF v < 128 THEN 2 * v ELSE XorByte((2 * v) % 256, 27)

\* Column c (0..3) of the block after SubBytes and ShiftRows: the byte of row
\* r comes from column c + r.
ShiftedColumn(block, c) ==
    [r \in 1..4 |-> SBox[block[4 * ((c + r - 1) % 4) + r] + 1]]

\* MixColumns of one column: row r is 2 a[r] + 3 a[r + 1] + a[r + 2] + a[r + 3]
\* in GF(2^8).
MixColumn(col) ==
    [r \in 1..4 |->
        LET a0 == col[r]
            a1 == col[(r % 4) + 1]
            a2 == col[((r + 1) % 4) + 1]
            a3 == col[((r + 2) % 4) + 1]
        IN  XorByte(XorByte(XTime(a0), XorByte(XTime(a1), a1)), XorByte(a2, a3))]

\* aes_round(block, key): SubBytes, ShiftRows, MixColumns, then the xor with
\* the round key.
aes_round(block, key) ==
    LET mixed == Strict([c \in 1..4 |-> MixColumn(ShiftedColumn(block, c - 1))])
    IN  Strict([i \in 1..16 |->
            XorByte(mixed[((i - 1) \div 4) + 1][((i - 1) % 4) + 1], key[i])])

\* SubWord of the key schedule.
SubWord(w) == [i \in 1..4 |-> SBox[w[i] + 1]]

\* Rcon[1..7]
Rcon == <<1, 2, 4, 8, 16, 32, 64>>

\* The next 32 bytes (8 words) of the AES-256 key schedule, prev the 32 bytes
\* before them and n >= 1 their number: word 0 is prev's word 0 xor
\* SubWord(RotWord(prev's word 7)) xor Rcon[n], word 4 is prev's word 4 xor
\* SubWord(word 3), every other word is prev's word xor the word before.
NextKeyChunk(prev, n) ==
    LET Word(i) == SubSeq(prev, 4 * i + 1, 4 * i + 4)
        last == Word(7)
        rot == <<last[2], last[3], last[4], last[1]>>
        w0 == XorBytes(XorBytes(Word(0), SubWord(rot)), <<Rcon[n], 0, 0, 0>>)
        w1 == XorBytes(Word(1), w0)
        w2 == XorBytes(Word(2), w1)
        w3 == XorBytes(Word(3), w2)
        w4 == XorBytes(Word(4), SubWord(w3))
        w5 == XorBytes(Word(5), w4)
        w6 == XorBytes(Word(6), w5)
        w7 == XorBytes(Word(7), w6)
    IN  w0 \o w1 \o w2 \o w3 \o w4 \o w5 \o w6 \o w7

\* The schedule that starts with the given bytes, grown to at least `bytes`
\* bytes.
RECURSIVE ExpandKey(_, _)
ExpandKey(expanded, bytes) ==
    IF Len(expanded) >= bytes THEN expanded
    ELSE LET n == Len(expanded) \div 32
             next == NextKeyChunk(SubSeq(expanded, 32 * n - 31, 32 * n), n)
         IN  IF next[1] >= 0 THEN ExpandKey(expanded \o next, bytes)
             ELSE expanded

\* The round keys of a schedule: 15 for AES-256.
RoundKeys == 15

\* derive_key(key): the AES-256 key schedule of the 32-byte key, 240 bytes.
derive_key(key) == SubSeq(ExpandKey(key, 16 * RoundKeys), 1, 16 * RoundKeys)

\* chunks_exact(n): the whole chunks of n bytes, a shorter rest left out.
ChunksExact(bytes, n) ==
    [k \in 1..(Len(bytes) \div n) |-> SubSeq(bytes, n * k - n + 1, n * k)]

Reverse(s) == [i \in 1..Len(s) |-> s[Len(s) + 1 - i]]

\* turn_to_u64(bytes): the u64 of 8 little-endian bytes.
turn_to_u64(bytes) == Reverse(bytes)

\* u64::to_le_bytes
ToLeBytes(v) == Reverse(v)

\* turn_to_u64_2(block): the pair of u64 of 16 bytes.
turn_to_u64_2(block) ==
    <<turn_to_u64(SubSeq(block, 1, 8)), turn_to_u64(SubSeq(block, 9, 16))>>

\* turn_to_u8_16(pair): the 16 bytes of a pair of u64.
turn_to_u8_16(pair) == ToLeBytes(pair[1]) \o ToLeBytes(pair[2])

XorU64(x, y) == XorBytes(x, y)

\* x ^ y for pairs of u64
xor_pair_u64_2(x, y) == <<XorU64(x[1], y[1]), XorU64(x[2], y[2])>>

\* The digits i..1 of x + y + carry, the carry out of digit 1 dropped.
RECURSIVE AddDigits(_, _, _, _)
AddDigits(x, y, i, carry) ==
    IF i = 0 THEN <<>>
    ELSE LET sum == x[i] + y[i] + carry
         IN  Append(AddDigits(x, y, i - 1, sum \div 256), sum % 256)

\* x + y mod 2^64
AddU64(x, y) == AddDigits(x, y, 8, 0)

\* Each u64 of x plus the u64 of y at its place, mod 2^64.
add_pair_u64_2(x, y) == <<AddU64(x[1], y[1]), AddU64(x[2], y[2])>>

\* The sum of the digit products of x and y that weigh 256^k.
ProductColumn(x, y, k) ==
    LET Term(i) == IF k - i \in 0..7 THEN x[8 - i] * y[8 - (k - i)] ELSE 0
    IN  Term(0) + Term(1) + Term(2) + Term(3) + Term(4) + Term(5) + Term(6)
        + Term(7)

\* The digits of the 128-bit product of x and y from the one that weighs
\* 256^k up, the most significant first.
RECURSIVE MulDigits(_, _, _, _)
MulDigits(x, y, k, carry) ==
    IF k = 16 THEN <<>>
    ELSE LET sum == ProductColumn(x, y, k) + carry
         IN  Append(MulDigits(x, y, k + 1, sum \div 256), sum % 256)

\* mul_pair_u64_2(x, y): the 128-bit product of x[0] and y[0], its high 64 bits
\* first and its low 64 bits second.
mul_pair_u64_2(x, y) ==
    LET product == MulDigits(x[1], y[1], 0, 0)
    IN  <<SubSeq(product, 1, 8), SubSeq(product, 9, 16)>>

(***************************************************************************)
(* cn_slow_hash (crypt/cryptonight/slow_hash.rs), its steps as operators.  *)
(* The host is taken to be little-endian.                                  *)
(***************************************************************************)
\* Keccak256Full: the Keccak-256 sponge, its whole 200-byte state as digest.
Keccak256Full(m) ==
    LET A == Sponge([b \in 1..1600 |-> 0], KeccakPad(m))
    IN  Strict([j \in 1..200 |-> StateByte(A, j - 1)])

\* tiny_keccak::keccakf on the 25 little-endian u64 of the 200 bytes, and the
\* bytes of the result.
keccakf(bytes) ==
    LET A == KeccakF(Strict([b \in 1..1600 |->
                        Bit(bytes[((b - 1) \div 8) + 1], (b - 1) % 8)]), 1)
    IN  Strict([j \in 1..200 |-> StateByte(A, j - 1)])

\* for key in round_keys.chunks_exact(16) { aes_round(block, key); }
\* from key number k on.
RECURSIVE ApplyRoundKeys(_, _, _)
ApplyRoundKeys(block, keys, k) ==
    IF k > Len(keys) THEN block
    ELSE LET next == aes_round(block, keys[k])
         IN  IF next[1] >= 0 THEN ApplyRoundKeys(next, keys, k + 1) ELSE next

\* for block in blocks.chunks_exact_mut(16) { for key in .. }
EncryptBlocks(blocks, round_keys) ==
    LET keys == ChunksExact(round_keys, 16)
    IN  Concat(Strict([c \in 1..(Len(blocks) \div 16) |->
            ApplyRoundKeys(SubSeq(blocks, 16 * c - 15, 16 * c), keys, 1)]))

\* The scratchpad with the chunk number n (from 0) of `size` bytes replaced.
WriteChunk(scratchpad, n, size, bytes) ==
    Strict([i \in 1..Len(scratchpad) |->
        IF i > n * size /\ i <= (n + 1) * size THEN bytes[i - n * size]
        ELSE scratchpad[i]])

\* (v & 0x1F_FFF0) as usize / 16: the cell that the low bits of v address.
CellAddress(v, size) == (((65536 * v[6] + 256 * v[7] + v[8]) % size) \div 16) + 1

\* Step 2C1 on the registers a and b and the cells sp_u64_2.
FirstTransfer(a, b, sp_u64_2, size) ==
    LET addr == CellAddress(a[1], size)
        block == aes_round(turn_to_u8_16(sp_u64_2[addr]), turn_to_u8_16(a))
        sp1 == [sp_u64_2 EXCEPT ![addr] = turn_to_u64_2(block)]
        tmp == b
        b1 == sp1[addr]
        man == xor_pair_u64_2(sp1[addr], tmp)
    IN  [a |-> a, b |-> b1, sp_u64_2 |-> [sp1 EXCEPT ![addr] = man]]

\* Step 2C2 with the cell written before a is computed from it.
SecondTransferWriteFirst(a, b, sp_u64_2, size) ==
    LET addr == CellAddress(b[1], size)
        tmp == add_pair_u64_2(a, mul_pair_u64_2(b, sp_u64_2[addr]))
        sp1 == [sp_u64_2 EXCEPT ![addr] = tmp]
    IN  [a |-> xor_pair_u64_2(sp1[addr], tmp), b |-> b, sp_u64_2 |-> sp1]

\* Step 2C2 on the registers a and b and the cells sp_u64_2.
SecondTransfer(a, b, sp_u64_2, size) ==
    LET addr == CellAddress(b[1], size)
        tmp == add_pair_u64_2(a, mul_pair_u64_2(b, sp_u64_2[addr]))
        a1 == xor_pair_u64_2(sp_u64_2[addr], tmp)
    IN  [a |-> a1, b |-> b, sp_u64_2 |-> [sp_u64_2 EXCEPT ![addr] = tmp]]

\* The finalizers blake256_hash, groestl256_hash, jh256_hash and
\* skein256_hash are left uninterpreted: the digest is the name of the
\* function and the state it is applied to.
HashFunctions == <<"blake256_hash", "groestl256_hash", "jh256_hash", "skein256_hash">>

\* Steps 3C and 3D
FinalHash(keccak_hash) ==
    [function |-> HashFunctions[(keccak_hash[1] % 4) + 1], of |-> keccak_hash]

(***************************************************************************)
(* The caller's view: one call at a time.  call is the last function       *)
(* called with its arguments ("none" before any call), ret what it did:    *)
(* Ok(value) or Panic(message).  mnemonic_seed is the mnemonic the caller  *)
(* holds (returned by generate_seed, or a mnemonic of its own, possibly    *)
(* edited since), generated the mnemonic as generate_seed returned it.     *)
(***************************************************************************)
VARIABLES call, ret, mnemonic_seed, generated

key_vars == <<call, ret, mnemonic_seed, generated>>

(***************************************************************************)
(* cn_slow_hash, a step at a time.  pc is the step the call is at, input   *)
(* its argument and the others its locals of the same name; chunk counts   *)
(* the stripes a loop over the scratchpad's chunks has done, iteration the *)
(* rounds of the memory-hard loop, digest is what the call returns; reg_a   *)
(* and reg_b are the locals a and b (the names a and b are bound names of  *)
(* the operators above).                                                   *)
(* Three variables record what has happened: writes the number of times    *)
(* Step 1E has written each stripe, stripe_input the 128 bytes the last    *)
(* stripe's AES rounds started from, and iteration_start the registers and *)
(* cells at the start of the loop's current (or last) iteration.           *)
(***************************************************************************)
VARIABLES pc, input, scratchpad, keccak_hash, round_keys, blocks, chunk,
          sp_u64_2, reg_a, reg_b, iteration, round_keys_buffer, digest,
          writes, stripe_input, iteration_start

hash_vars == <<pc, input, scratchpad, keccak_hash, round_keys, blocks, chunk,
               sp_u64_2, reg_a, reg_b, iteration, round_keys_buffer, digest,
               writes, stripe_input, iteration_start>>

vars == <<key_vars, hash_vars>>

\* Bounds of the inputs.
MaxStart == 1
MaxStep == 1
MaxPos == 1
MaxFill == 1
MaxNetwork == 2
ScratchpadBits == 8
MaxInputLen == 1

\* The random streams tried: a few starts and steps, the last dictionary
\* position among them (step wordset_len - 1 walks the dictionary backwards).
Starts == (0..MaxStart) \cup {wordset_len - 1}
Steps == (0..MaxStep) \cup {wordset_len - 1}
\* The dictionary positions a caller's own mnemonic is built from.
Positions == (0..MaxPos) \cup {wordset_len - 2, wordset_len - 1}

LanguageArgs == Languages \cup {"de"}
SeedTypeArgs == {"original", "mymonero", "polyseed", "electrum"}

\* The byte strings a hex seed or a key is made of: one byte repeated.
FillBytes == (0..MaxFill) \cup {255}
Fill(n, v) == [i \in 1..n |-> v]

\* Hex seeds of 16 and 32 bytes, one of 31 bytes, and 64 characters that are
\* upper-case hex digits ('F') or no hex digits ('g').
HexSeedArgs ==
    {HexEncode(Fill(n, v)) : n \in {16, 32}, v \in FillBytes}
        \cup {HexEncode(Fill(31, 1)), Fill(64, 70), Fill(64, 103)}

\* Public keys of 32 bytes, one of 31 bytes, the empty string and a string
\* of one character.
KeyArgs ==
    {HexEncode(Fill(32, v)) : v \in FillBytes}
        \cup {HexEncode(Fill(31, 1)), <<>>, <<49>>}

\* network: u8
NetworkArgs == (0..MaxNetwork) \cup {255}

NoCall == [fn |-> "none"]

\* The size of the scratchpad (2 MiB in the source, 2^21 bytes), the count of
\* its 16-byte cells and the rounds of the memory-hard loop: all three are
\* scaled together, the loop doing a round for every 4 bytes of scratchpad
\* (524,288 for 2 MiB).
SCRATCHPAD_SIZE == 2 ^ ScratchpadBits
Cells == SCRATCHPAD_SIZE \div 16
Iterations == SCRATCHPAD_SIZE \div 4

\* "This is a test"
ThisIsATest == <<84, 104, 105, 115, 32, 105, 115, 32, 97, 32, 116, 101, 115, 116>>

\* input: &[u8]
InputArgs == {Fill(n, 97) : n \in 0..MaxInputLen} \cup {ThisIsATest}

HashIdle ==
    /\ pc = "idle"
    /\ input = <<>>
    /\ scratchpad = <<>>
    /\ keccak_hash = <<>>
    /\ round_keys = <<>>
    /\ blocks = <<>>
    /\ chunk = 0
    /\ sp_u64_2 = <<>>
    /\ reg_a = <<>>
    /\ reg_b = <<>>
    /\ iteration = 0
    /\ round_keys_buffer = <<>>
    /\ digest = <<>>
    /\ writes = <<>>
    /\ stripe_input = <<>>
    /\ iteration_start = <<>>

Init ==
    /\ call = NoCall
    /\ ret = Ok(<<>>)
    /\ mnemonic_seed = <<>>
    /\ generated = <<>>
    /\ HashIdle

\* generate_seed(language, seed_type), the generator drawing stream
\* (start, step).
GenerateSeed(language, seed_type, start, step) ==
    /\ call = NoCall
    /\ LET r == generate_seed(language, seed_type,
                              RandomIndexes(start, step, 24))
       IN  /\ ret' = r
           /\ mnemonic_seed' = IF r.kind = "ok" THEN r.value ELSE <<>>
           /\ generated' = IF r.kind = "ok" THEN r.value ELSE <<>>
    /\ call' = [fn |-> "generate_seed", language |-> language,
                seed_type |-> seed_type, stream |-> <<start, step>>]
    /\ UNCHANGED hash_vars

\* The caller replaces the last word of the generated mnemonic by another
\* word (position p) of the same dictionary.
ReplaceLastWord(p) ==
    /\ call.fn = "generate_seed"
    /\ ret.kind = "ok"
    /\ LET word == WordsetNamed(call.language).words[p + 1]
       IN  /\ word # mnemonic_seed[Len(mnemonic_seed)]
           /\ mnemonic_seed' =
                [mnemonic_seed EXCEPT ![Len(mnemonic_seed)] = word]
    /\ call' = [fn |-> "replace_last_word", language |-> call.language,
                seed_type |-> call.seed_type]
    /\ UNCHANGED <<ret, generated>>
    /\ UNCHANGED hash_vars

\* The caller has a short mnemonic of its own: three words of wordset k, with
\* or without the checksum word of the three.
OwnMnemonic(k, w1, w2, w3, with_checksum) ==
    /\ call = NoCall
    /\ LET words == WORDSETSORIGINAL[k].words
           seed == <<words[w1 + 1], words[w2 + 1], words[w3 + 1]>>
           index == get_checksum_index(seed, WORDSETSORIGINAL[k].prefix_len)
       IN  mnemonic_seed' =
                IF with_checksum THEN Append(seed, seed[index + 1]) ELSE seed
    /\ call' = [fn |-> "own_mnemonic", language |-> WORDSETSORIGINAL[k].name,
                positions |-> <<w1, w2, w3>>, with_checksum |-> with_checksum]
    /\ UNCHANGED <<ret, generated>>
    /\ UNCHANGED hash_vars

\* derive_hex_seed(mnemonic_seed)
DeriveHexSeed ==
    /\ \/ call.fn = "generate_seed" /\ ret.kind = "ok"
       \/ call.fn \in {"replace_last_word", "own_mnemonic"}
    /\ ret' = derive_hex_seed(mnemonic_seed)
    /\ call' = [fn |-> "derive_hex_seed", from |-> call]
    /\ UNCHANGED <<mnemonic_seed, generated>>
    /\ UNCHANGED hash_vars

\* derive_priv_keys(hex_seed)
DerivePrivKeys(hex_seed) ==
    /\ call = NoCall
    /\ ret' = derive_priv_keys(hex_seed)
    /\ call' = [fn |-> "derive_priv_keys", hex_seed |-> hex_seed]
    /\ UNCHANGED <<mnemonic_seed, generated>>
    /\ UNCHANGED hash_vars

\* derive_priv_vk_from_priv_sk(keys[0]), keys the private keys that
\* derive_priv_keys returned.
DerivePrivVkFromPrivSk ==
    /\ call.fn = "derive_priv_keys"
    /\ ret.kind = "ok"
    /\ ret' = derive_priv_vk_from_priv_sk(ret.value[1])
    /\ call' = [fn |-> "derive_priv_vk_from_priv_sk",
                private_spend_key |-> ret.value[1],
                priv_keys |-> ret.value, from |-> call]
    /\ UNCHANGED <<mnemonic_seed, generated>>
    /\ UNCHANGED hash_vars

\* derive_address(public_spend_key, public_view_key, network)
DeriveAddress(public_spend_key, public_view_key, network) ==
    /\ call = NoCall
    /\ ret' = derive_address(public_spend_key, public_view_key, network)
    /\ call' = [fn |-> "derive_address", public_spend_key |-> public_spend_key,
                public_view_key |-> public_view_key, network |-> network]
    /\ UNCHANGED <<mnemonic_seed, generated>>
    /\ UNCHANGED hash_vars

\* The call is over; the caller starts afresh.
Return ==
    /\ call # NoCall
    /\ call' = NoCall
    /\ ret' = Ok(<<>>)
    /\ mnemonic_seed' = <<>>
    /\ generated' = <<>>
    /\ UNCHANGED hash_vars

Next ==
    \/ \E language \in LanguageArgs, seed_type \in SeedTypeArgs,
          start \in Starts, step \in Steps :
            GenerateSeed(language, seed_type, start, step)
    \/ \E p \in Starts : ReplaceLastWord(p)
    \/ \E k \in 1..Len(WORDSETSORIGINAL), w1 \in Positions, w2 \in Positions,
          w3 \in Positions, with_checksum \in BOOLEAN :
            OwnMnemonic(k, w1, w2, w3, with_checksum)
    \/ DeriveHexSeed
    \/ \E hex_seed \in HexSeedArgs : DerivePrivKeys(hex_seed)
    \/ DerivePrivVkFromPrivSk
    \/ \E public_spend_key \in KeyArgs, public_view_key \in KeyArgs,
          network \in NetworkArgs :
            DeriveAddress(public_spend_key, public_view_key, network)
    \/ Return

Spec == Init /\ [][Next]_vars

(***************************************************************************)
(* The steps of cn_slow_hash.                                              *)
(***************************************************************************)
\* Steps 1A to 1D: the scratchpad is zeroed, the input hashed, the round keys
\* derived and the blocks taken from the hash.
StartHash(in) ==
    /\ pc = "idle"
    /\ input' = in
    /\ scratchpad' = Fill(SCRATCHPAD_SIZE, 0)
    /\ keccak_hash' = Keccak256Full(in)
    /\ round_keys' = derive_key(SubSeq(keccak_hash', 1, 32))
    /\ blocks' = SubSeq(keccak_hash', 65, 192)
    /\ chunk' = 0
    /\ writes' = Fill(SCRATCHPAD_SIZE \div 128, 0)
    /\ pc' = "step_1e"
    /\ UNCHANGED <<sp_u64_2, reg_a, reg_b, iteration, round_keys_buffer, digest,
                   stripe_input, iteration_start>>
    /\ UNCHANGED key_vars

\* Step 1E, one round of the loop: the blocks are encrypted and copied to the
\* next 128 bytes of the scratchpad.
InitStripe ==
    /\ pc = "step_1e"
    /\ chunk < Len(scratchpad) \div Len(blocks)
    /\ blocks' = EncryptBlocks(blocks, round_keys)
    /\ scratchpad' = WriteChunk(scratchpad, chunk, Len(blocks), blocks')
    /\ chunk' = chunk + 1
    /\ writes' = [writes EXCEPT ![chunk + 1] = @ + 1]
    /\ stripe_input' = blocks
    /\ UNCHANGED <<pc, input, keccak_hash, round_keys, sp_u64_2, reg_a, reg_b,
                   iteration, round_keys_buffer, digest, iteration_start>>
    /\ UNCHANGED key_vars

\* Steps 2A and 2B: the scratchpad is read as pairs of u64 (a read of 16
\* bytes through a *const u64, of the host's byte order) and a and b are taken
\* from the hash.
ViewAsPairs ==
    /\ pc = "step_1e"
    /\ chunk = Len(scratchpad) \div Len(blocks)
    /\ sp_u64_2' = [i \in 1..Cells |->
                        turn_to_u64_2(SubSeq(scratchpad, 16 * i - 15, 16 * i))]
    /\ reg_a' = <<XorU64(turn_to_u64(SubSeq(keccak_hash, 1, 8)),
                     turn_to_u64(SubSeq(keccak_hash, 33, 40))),
              XorU64(turn_to_u64(SubSeq(keccak_hash, 9, 16)),
                     turn_to_u64(SubSeq(keccak_hash, 41, 48)))>>
    /\ reg_b' = <<XorU64(turn_to_u64(SubSeq(keccak_hash, 17, 24)),
                     turn_to_u64(SubSeq(keccak_hash, 49, 56))),
              XorU64(turn_to_u64(SubSeq(keccak_hash, 25, 32)),
                     turn_to_u64(SubSeq(keccak_hash, 57, 64)))>>
    /\ iteration' = 0
    /\ pc' = "step_2c1"
    /\ UNCHANGED <<input, scratchpad, keccak_hash, round_keys, blocks, chunk,
                   round_keys_buffer, digest, writes, stripe_input,
                   iteration_start>>
    /\ UNCHANGED key_vars

\* Step 2A when the byte array is not at an address that is a multiple of 8:
\* slice::from_raw_parts of a misaligned *const u64 is undefined behaviour;
\* a build either reads the bytes all the same (ViewAsPairs) or stops at the
\* precondition check of from_raw_parts.
ViewMisaligned ==
    /\ pc = "step_1e"
    /\ chunk = Len(scratchpad) \div Len(blocks)
    /\ pc' = "aborted"
    /\ UNCHANGED <<input, scratchpad, keccak_hash, round_keys, blocks, chunk,
                   sp_u64_2, reg_a, reg_b, iteration, round_keys_buffer, digest,
                   writes, stripe_input, iteration_start>>
    /\ UNCHANGED key_vars

\* Step 2C1 of a round of the memory-hard loop.
FirstTransferStep ==
    /\ pc = "step_2c1"
    /\ iteration < Iterations
    /\ LET next == FirstTransfer(reg_a, reg_b, sp_u64_2, SCRATCHPAD_SIZE)
       IN  /\ reg_a' = next.a
           /\ reg_b' = next.b
           /\ sp_u64_2' = next.sp_u64_2
    /\ iteration_start' = [a |-> reg_a, b |-> reg_b, sp_u64_2 |-> sp_u64_2]
    /\ pc' = "step_2c2"
    /\ UNCHANGED <<input, scratchpad, keccak_hash, round_keys, blocks, chunk,
                   iteration, round_keys_buffer, digest, writes, stripe_input>>
    /\ UNCHANGED key_vars

\* Step 2C2, the end of the round.
SecondTransferStep ==
    /\ pc = "step_2c2"
    /\ LET next == SecondTransfer(reg_a, reg_b, sp_u64_2, SCRATCHPAD_SIZE)
       IN  /\ reg_a' = next.a
           /\ reg_b' = next.b
           /\ sp_u64_2' = next.sp_u64_2
    /\ iteration' = iteration + 1
    /\ pc' = "step_2c1"
    /\ UNCHANGED <<input, scratchpad, keccak_hash, round_keys, blocks, chunk,
                   round_keys_buffer, digest, writes, stripe_input,
                   iteration_start>>
    /\ UNCHANGED key_vars

\* The loop is over.  Step 2D: the pairs are copied back as bytes; Step 3A,
\* before its loop: the round keys of bytes 32..63 of the hash.
ViewAsBytes ==
    /\ pc = "step_2c1"
    /\ iteration >= Iterations
    /\ scratchpad' = Concat([i \in 1..Len(sp_u64_2) |->
                                turn_to_u8_16(sp_u64_2[i])])
    /\ round_keys_buffer' = derive_key(SubSeq(keccak_hash, 33, 64))
    /\ chunk' = 0
    /\ pc' = "step_3a"
    /\ UNCHANGED <<input, keccak_hash, round_keys, blocks, sp_u64_2, reg_a, reg_b,
                   iteration, digest, writes, stripe_input, iteration_start>>
    /\ UNCHANGED key_vars

\* Step 3A, one round of the loop: final_block (bytes 64..191 of the hash) is
\* xored with the next 128 bytes of the scratchpad and encrypted.
ResultStripe ==
    /\ pc = "step_3a"
    /\ chunk < Len(scratchpad) \div 128
    /\ LET final_block == SubSeq(keccak_hash, 65, 192)
           scratchpad_chunk == SubSeq(scratchpad, 128 * chunk + 1,
                                      128 * chunk + 128)
           xored == XorBytes(final_block, scratchpad_chunk)
       IN  /\ stripe_input' = xored
           /\ keccak_hash' = SubSeq(keccak_hash, 1, 64)
                                \o EncryptBlocks(xored, round_keys_buffer)
                                \o SubSeq(keccak_hash, 193, 200)
    /\ chunk' = chunk + 1
    /\ UNCHANGED <<pc, input, scratchpad, round_keys, blocks, sp_u64_2, reg_a, reg_b,
                   iteration, round_keys_buffer, digest, writes,
                   iteration_start>>
    /\ UNCHANGED key_vars

\* Steps 3B to 3D: the permutation, then the finalizer that the low bits of
\* the first byte select.
FinalizeHash ==
    /\ pc = "step_3a"
    /\ chunk = Len(scratchpad) \div 128
    /\ keccak_hash' = keccakf(keccak_hash)
    /\ digest' = FinalHash(keccak_hash')
    /\ pc' = "done"
    /\ UNCHANGED <<input, scratchpad, round_keys, blocks, chunk, sp_u64_2, reg_a, reg_b,
                   iteration, round_keys_buffer, writes, stripe_input,
                   iteration_start>>
    /\ UNCHANGED key_vars

\* The call is over and its locals are gone.
HashReturn ==
    /\ pc \in {"done", "aborted"}
    /\ pc' = "idle"
    /\ input' = <<>>
    /\ scratchpad' = <<>>
    /\ keccak_hash' = <<>>
    /\ round_keys' = <<>>
    /\ blocks' = <<>>
    /\ chunk' = 0
    /\ sp_u64_2' = <<>>
    /\ reg_a' = <<>>
    /\ reg_b' = <<>>
    /\ iteration' = 0
    /\ round_keys_buffer' = <<>>
    /\ digest' = <<>>
    /\ writes' = <<>>
    /\ stripe_input' = <<>>
    /\ iteration_start' = <<>>
    /\ UNCHANGED key_vars

HashNext ==
    \/ \E in \in InputArgs : StartHash(in)
    \/ InitStripe
    \/ ViewAsPairs
    \/ ViewMisaligned
    \/ FirstTransferStep
    \/ SecondTransferStep
    \/ ViewAsBytes
    \/ ResultStripe
    \/ FinalizeHash
    \/ HashReturn

HashSpec == Init /\ [][HashNext]_vars

(***************************************************************************)
(* Properties.                                                             *)
(***************************************************************************)
SeedWords(seed_type) == IF seed_type = "original" THEN 24 ELSE 12

\* C1: a seed generate_seed returns holds N words, the words the generator
\* drew from the language's dictionary in the order drawn (N = 24 for
\* "original", 12 for "mymonero"), followed by one checksum word; the checksum
\* word is the seed's own word at index CRC32(the first N words, each cut to
\* its first prefix_len bytes, concatenated) mod N.
C1_ChecksumWordOfSeed ==
    (call.fn = "generate_seed" /\ ret.kind = "ok") =>
        LET n == SeedWords(call.seed_type)
            ws == WordsetNamed(call.language)
            drawn == RandomIndexes(call.stream[1], call.stream[2], n)
            trimmed == Concat([i \in 1..n |-> Prefix(ret.value[i], ws.prefix_len)])
        IN  /\ call.seed_type \in {"original", "mymonero"}
            /\ Len(ret.value) = n + 1
            /\ \A i \in 1..n : ret.value[i] = ws.words[drawn[i] + 1]
            /\ ret.value[n + 1] = ret.value[U32Mod(Crc32(trimmed), n) + 1]

\* A 25-word seed whose checksum word is not its first word and is not the
\* dictionary's word at the checksum index.
C1_Witness ==
    /\ call.fn = "generate_seed"
    /\ ret.kind = "ok"
    /\ call.seed_type = "original"
    /\ Len(ret.value) = 25
    /\ LET ws == WordsetNamed(call.language)
           index == get_checksum_index(SubSeq(ret.value, 1, 24), ws.prefix_len)
       IN  /\ ws.prefix_len > 0
           /\ index > 0
           /\ ret.value[25] # ret.value[1]
           /\ ret.value[25] # ws.words[index + 1]

\* The hex seed's length for a mnemonic of the given length: 8 characters for
\* each three of its words, the checksum word left out.
HexSeedLen(mnemonic) == 8 * ((Len(mnemonic) - 1) \div 3)

\* C2 (as claimed): for every wordset, of prefix_len 0 or positive,
\* derive_hex_seed of a 25-word mnemonic returns 64 hex characters and of a
\* 13-word mnemonic 32.
C2_HexSeedLengthEveryWordset ==
    (call.fn = "derive_hex_seed" /\ call.from.fn = "generate_seed") =>
        /\ ret.kind = "ok"
        /\ Len(mnemonic_seed) \in {13, 25}
        /\ Len(ret.value) = HexSeedLen(mnemonic_seed)
        /\ \A i \in 1..Len(ret.value) : HexVal(ret.value[i]) >= 0

\* The little-endian 4-byte encoding, in hex, of x = <<hi, lo>>.
LittleEndianHex(x) ==
    HexEncode(<<x[2] % 256, x[2] \div 256, x[1] % 256, (x[1] \div 256) % 256>>)

\* C3 (as claimed): the group derive_hex_seed emits for a triple of dictionary
\* positions is the little-endian 4-byte encoding of x, and no digit of x is
\* lost: x is the value of those four bytes, also when x reaches 2^32.
C3_GroupIsLittleEndianOfX ==
    (/\ call.fn = "derive_hex_seed"
     /\ call.from.fn = "own_mnemonic"
     /\ ret.kind = "ok") =>
        LET w == call.from.positions
            x == triple_value(w[1], w[2], w[3])
        IN  /\ ret.value = LittleEndianHex(x)
            /\ x[1] < 65536

\* C4 (as claimed): derive_hex_seed of a valid mnemonic whose checksum word was
\* replaced by another word of the dictionary reports an error, and never
\* returns the hex seed of the unmodified mnemonic.
C4_ReplacedChecksumRejected ==
    (call.fn = "derive_hex_seed" /\ call.from.fn = "replace_last_word") =>
        /\ ret.kind # "ok"
        /\ ret # derive_hex_seed(generated)

\* C5 (as claimed): generate_seed with a seed type other than "original" and
\* "mymonero" returns a typed InvalidArgument error value to its caller.
C5_TypedErrorValue ==
    (call.fn = "generate_seed" /\ call.seed_type \notin {"original", "mymonero"}) =>
        /\ ret.kind = "err"
        /\ ret.msg = "InvalidArgument"

\* C5 (amended): generate_seed with seed type "polyseed", or any seed type
\* other than "original" and "mymonero", produces no seed and panics (with
\* the message of the seed type), whatever the language argument: the caller
\* is unwound, no error value is returned to it.
C5_PanicsOnSeedType ==
    (call.fn = "generate_seed" /\ call.seed_type \notin {"original", "mymonero"}) =>
        /\ ret = Panic(IF call.seed_type = "polyseed"
                       THEN "Polyseed not yet implemented yet"
                       ELSE "Invalid seed type")
        /\ mnemonic_seed = <<>>

\* generate_seed was called with a supported language and a seed type that is
\* neither implemented nor known.
C5_Witness ==
    /\ call.fn = "generate_seed"
    /\ call.seed_type = "electrum"
    /\ call.language \in Languages
    /\ ret.kind = "panic"

\* The hex string s is made of hex digits only.
IsHex(s) == \A i \in 1..Len(s) : HexVal(s[i]) >= 0

\* The bytes a string of hex digits stands for.
BytesOf(s) == HexDecode(s).value

\* C6: for a seed s of 64 hex characters, derive_priv_keys(s) returns
\* [priv_spend, priv_view] with priv_spend = sc_reduce32(s) and priv_view =
\* sc_reduce32(Keccak256(priv_spend)), both as hex, priv_view being what
\* derive_priv_vk_from_priv_sk returns for priv_spend; and
\* derive_priv_vk_from_priv_sk called with the returned priv_spend returns the
\* returned priv_view.
C6_OriginalPrivKeys ==
    /\ (/\ call.fn = "derive_priv_keys"
        /\ Len(call.hex_seed) = 64
        /\ IsHex(call.hex_seed)) =>
            /\ ret.kind = "ok"
            /\ Len(ret.value) = 2
            /\ ret.value[1] = HexEncode(sc_reduce32(BytesOf(call.hex_seed)))
            /\ ret.value[2] =
                 HexEncode(sc_reduce32(Keccak256(BytesOf(ret.value[1]))))
            /\ Ok(ret.value[2]) = derive_priv_vk_from_priv_sk(ret.value[1])
    /\ (/\ call.fn = "derive_priv_vk_from_priv_sk"
        /\ Len(call.from.hex_seed) = 64) =>
            ret = Ok(call.priv_keys[2])

\* derive_priv_vk_from_priv_sk has returned the view key of a spend key that
\* sc_reduce32 changed: the seed of 64 hex characters is not below the group
\* order.
C6_Witness ==
    /\ call.fn = "derive_priv_vk_from_priv_sk"
    /\ Len(call.from.hex_seed) = 64
    /\ ret.kind = "ok"
    /\ call.private_spend_key # call.from.hex_seed
    /\ ~ LessLE(BytesOf(call.from.hex_seed), GroupOrder, 32)

\* C7: for a seed s of 32 hex characters, derive_priv_keys(s) returns
\* [priv_spend, priv_view] with priv_spend = sc_reduce32(Keccak256(s)) and
\* priv_view = sc_reduce32(Keccak256(Keccak256(s))), both as hex: the digest
\* of the 16 seed bytes is hashed again as it is, not after its reduction.
C7_MyMoneroPrivKeys ==
    (/\ call.fn = "derive_priv_keys"
     /\ Len(call.hex_seed) = 32
     /\ IsHex(call.hex_seed)) =>
        LET seed_digest == Keccak256(BytesOf(call.hex_seed))
        IN  /\ Len(BytesOf(call.hex_seed)) = 16
            /\ ret.kind = "ok"
            /\ Len(ret.value) = 2
            /\ ret.value[1] = HexEncode(sc_reduce32(seed_digest))
            /\ ret.value[2] = HexEncode(sc_reduce32(Keccak256(seed_digest)))

\* derive_priv_keys has returned the keys of a seed of 32 hex characters whose
\* digest sc_reduce32 changes: the view key differs from the one the reduced
\* spend key would give.
C7_Witness ==
    /\ call.fn = "derive_priv_keys"
    /\ Len(call.hex_seed) = 32
    /\ ret.kind = "ok"
    /\ ret.value[1] # HexEncode(Keccak256(BytesOf(call.hex_seed)))
    /\ Ok(ret.value[2]) # derive_priv_vk_from_priv_sk(ret.value[1])

\* The digit a Base58 character stands for.
Base58Digit(c) == CHOOSE d \in 0..57 : Base58Alphabet[d + 1] = c

\* 58 * (the big-endian number bytes[1..i]) + carry, in Len(bytes) bytes.
RECURSIVE MulAdd58(_, _, _)
MulAdd58(bytes, i, carry) ==
    IF i = 0 THEN <<>>
    ELSE LET cur == 58 * bytes[i] + carry
         IN  Append(MulAdd58(bytes, i - 1, cur \div 256), cur % 256)

\* The n bytes whose big-endian number the Base58 digits chars[1..k] write.
RECURSIVE DecodeDigits(_, _, _)
DecodeDigits(chars, k, n) ==
    IF k = 0 THEN Fill(n, 0)
    ELSE LET upper == DecodeDigits(chars, k - 1, n)
         IN  IF upper = <<>> THEN upper
             ELSE MulAdd58(upper, n, Base58Digit(chars[k]))

\* The bytes a block of Base58 characters stands for.
DecodeBlock(chars) ==
    LET n == CHOOSE m \in 0..8 : EncodedBlockSizes[m + 1] = Len(chars)
    IN  DecodeDigits(chars, Len(chars), n)

\* The payload of an address: its blocks of 11 characters, and the shorter
\* block that is left, decoded.
Base58Decode(address) ==
    LET count == (Len(address) + 10) \div 11
    IN  Concat([k \in 1..count |->
            DecodeBlock(SubSeq(address, 11 * k - 10,
                IF 11 * k <= Len(address) THEN 11 * k ELSE Len(address)))])

\* C8: an address derive_address returns for network 0 encodes a payload whose
\* first byte is 0x12, for network 1 one whose first byte is 0x35; for every
\* other network id derive_address fails (it panics, "Invalid network") and
\* returns no address, whatever the keys are.
C8_NetworkTag ==
    (call.fn = "derive_address") =>
        /\ (call.network = 0 /\ ret.kind = "ok") =>
                Base58Decode(ret.value)[1] = 18
        /\ (call.network = 1 /\ ret.kind = "ok") =>
                Base58Decode(ret.value)[1] = 53
        /\ (call.network \notin {0, 1}) => ret = Panic("Invalid network")

\* derive_address has returned a test network address (its first character is
\* '9' or 'A') for two 32-byte keys.
C8_Witness ==
    /\ call.fn = "derive_address"
    /\ call.network = 1
    /\ ret.kind = "ok"
    /\ Len(BytesOf(call.public_spend_key)) = 32
    /\ Len(BytesOf(call.public_view_key)) = 32
    /\ ret.value[1] \in {57, 65}
    /\ Base58Decode(ret.value)[1] = 53

\* C9 (as claimed): every address derive_address returns is 95 characters, the
\* Base58 of 69 bytes tag || pub_spend (32) || pub_view (32) || the first 4
\* bytes of Keccak256 of the 65 bytes before; no address is built from a key
\* that is not 32 bytes long.
C9_AddressOf69Bytes ==
    (call.fn = "derive_address" /\ ret.kind = "ok") =>
        LET payload == Base58Decode(ret.value)
        IN  /\ Len(ret.value) = 95
            /\ Len(payload) = 69
            /\ Len(BytesOf(call.public_spend_key)) = 32
            /\ Len(BytesOf(call.public_view_key)) = 32
            /\ SubSeq(payload, 2, 33) = BytesOf(call.public_spend_key)
            /\ SubSeq(payload, 34, 65) = BytesOf(call.public_view_key)
            /\ SubSeq(payload, 66, 69) =
                 SubSeq(Keccak256(SubSeq(payload, 1, 65)), 1, 4)


\* The first `count` round keys of a schedule.
FirstRoundKeys(schedule, count) == SubSeq(schedule, 1, 16 * count)

ClaimedRound(start) ==
    LET addr1 == CellAddress(start.a[1], SCRATCHPAD_SIZE)
        cell == turn_to_u64_2(aes_round(turn_to_u8_16(start.sp_u64_2[addr1]),
                                        turn_to_u8_16(start.a)))
        half == [start.sp_u64_2 EXCEPT
                    ![addr1] = xor_pair_u64_2(cell, start.b)]
        addr2 == CellAddress(cell[1], SCRATCHPAD_SIZE)
        old == half[addr2]
        t == add_pair_u64_2(start.a, mul_pair_u64_2(cell, old))
    IN  [addr1 |-> addr1, addr2 |-> addr2, cell |-> cell, half |-> half,
         a |-> xor_pair_u64_2(t, old), b |-> cell,
         sp_u64_2 |-> [half EXCEPT ![addr2] = t]]

\* C12: the memory-hard loop runs exactly Iterations rounds (524,288 for the
\* 2 MiB scratchpad), and every round goes in this order: cell' is
\* aes_round(scratchpad[addr1], a) with addr1 from the low word of a;
\* scratchpad[addr1] becomes cell' xor the b of the round's start; b becomes
\* cell'; then addr2 is taken from the updated b, t is a plus the
\* halves-swapped product of the low words of b and scratchpad[addr2], per
\* 64-bit half mod 2^64; scratchpad[addr2] becomes t and a becomes t xor the
\* value scratchpad[addr2] had before; also when addr1 = addr2.
C12_RoundOrder ==
    /\ (pc = "step_2c2") =>
          /\ iteration < Iterations
          /\ reg_a = iteration_start.a
          /\ reg_b = ClaimedRound(iteration_start).cell
          /\ sp_u64_2 = ClaimedRound(iteration_start).half
    /\ (pc = "step_2c1" /\ iteration > 0) =>
          /\ iteration <= Iterations
          /\ reg_a = ClaimedRound(iteration_start).a
          /\ reg_b = ClaimedRound(iteration_start).b
          /\ sp_u64_2 = ClaimedRound(iteration_start).sp_u64_2
    /\ (pc \in {"step_3a", "done"}) => iteration = Iterations

\* A round whose two addresses are the same cell has ended, and the cell holds
\* neither what it held at the round's start nor what the first half wrote.
C12_Witness ==
    /\ pc = "step_2c1"
    /\ iteration > 0
    /\ LET round == ClaimedRound(iteration_start)
       IN  /\ round.addr1 = round.addr2
           /\ sp_u64_2[round.addr2] # iteration_start.sp_u64_2[round.addr2]
           /\ sp_u64_2[round.addr2] # round.half[round.addr2]
           /\ reg_a # iteration_start.a


\* T(w): the whole word when prefix_len is 0, else its first prefix_len
\* letters.
TrimmedOrWhole(word, prefix_len) ==
    IF prefix_len = 0 THEN word ELSE Prefix(word, prefix_len)

\* C13 (as claimed): the checksum index of a seed is CRC32 of the
\* concatenation of T(word_i) mod N, T(w) being the whole word w for a wordset
\* of prefix_len 0 and the first prefix_len letters of w otherwise: the
\* checksum word generate_seed appends is the seed's word at that index.
C13_ChecksumIndexOfWholeWords ==
    (call.fn = "generate_seed" /\ ret.kind = "ok") =>
        LET n == Len(ret.value) - 1
            ws == WordsetNamed(call.language)
            text == Concat([i \in 1..n |->
                               TrimmedOrWhole(ret.value[i], ws.prefix_len)])
        IN  ret.value[n + 1] = ret.value[U32Mod(Crc32(text), n) + 1]


\* The 128-byte stripe number i (from 1) of the scratchpad.
Stripe(i) == SubSeq(scratchpad, 128 * i - 127, 128 * i)

C15_TripleCheckNeverFails ==
    /\ (call.fn = "derive_hex_seed") => ret # DecodeFailed
    /\ (call.fn = "own_mnemonic") =>
          LET w == call.positions
          IN  U64Mod(triple_value(w[1], w[2], w[3]), wordset_len) = w[1]

\* derive_hex_seed has decoded a triple whose x is 2^32 or more and whose
\* first position is not 0.
C15_Witness ==
    /\ call.fn = "derive_hex_seed"
    /\ call.from.fn = "own_mnemonic"
    /\ ret.kind = "ok"
    /\ LET w == call.from.positions
           x == triple_value(w[1], w[2], w[3])
       IN  /\ x[1] >= 65536
           /\ w[1] > 0
           /\ U64Mod(x, wordset_len) = w[1]

=============================================================================
